---- MODULE Spec2Model ----
(***************************************************************************)
(* aidapt_torch_utils: the TensorBoard recorder (TensorboardWriter) and    *)
(* the checkpoint store (CheckpointHandler), as state machines.            *)
(***************************************************************************)
EXTENDS Integers, Sequences, FiniteSets, TLC

VARIABLES
    tag_steps,    \* TensorboardWriter.tag_steps: tag -> int | dict(sub-tag -> int)
    tag_counter,  \* TensorboardWriter.tag_counter: tag -> number of recordings
    sink,         \* the calls made on the SummaryWriter, in order
    attempted,    \* history: (tag, grouped?, explicit?) of every item the loop reached
    lastRun,      \* history: the record_data_from_dict call just made and how it went
    interval,     \* CheckpointHandler.interval
    files,        \* the files of CheckpointHandler.checkpoint_dir: name -> content
    latest,       \* history: epoch -> the arguments of the most recent save_checkpoint
    lastOp        \* history: the CheckpointHandler call just made and how it went

tbVars == <<tag_steps, tag_counter, sink, attempted, lastRun>>

ckVars == <<interval, files, latest, lastOp>>

vars == <<tag_steps, tag_counter, sink, attempted, lastRun, interval, files, latest, lastOp>>

(***************************************************************************)
(* Bounds of the model.                                                    *)
(***************************************************************************)
MaxStep == 5        \* the explicit steps are 0 and MaxStep
MaxBatchLen == 2    \* a batch holds at most this many (tag, item) pairs
MaxSink == 3        \* no call is made that could take the sink beyond this many calls
MaxTypedCalls == 2  \* the sink gets at most this many calls when every type is tried
MaxInterval == 2    \* the handler is built with an interval in -MaxInterval..MaxInterval

Tags == {"loss", "acc"}
SubTags == {"train", "val"}

(***************************************************************************)
(* Values.                                                                 *)
(***************************************************************************)
None == -1   \* TBItemData.step = None (steps themselves are >= 0)

EmptyMap == [x \in {} |-> 0]

\* A value of tag_steps: Python int or Python dict, told apart by kind.
IntV(k) == [kind |-> "int", n |-> k, d |-> EmptyMap]
DictV(f) == [kind |-> "dict", n |-> 0, d |-> f]

\* dict.update({k: v}) / d[k] = v on a mapping held as a function.
Put(f, k, v) == [x \in (DOMAIN f) \cup {k} |-> IF x = k THEN v ELSE f[x]]

\* dict.get(k, default)
Get(f, k, default) == IF k \in DOMAIN f THEN f[k] ELSE default

types ==
    <<"scalar", "scalars", "image", "figure", "audio", "video", "text", "histogram", "graph">>

tensorboard_writer_fns ==
    <<"add_scalar", "add_scalars", "add_image", "add_figure", "add_audio",
      "add_video", "add_text", "add_histogram", "add_graph">>

Range(s) == {s[i] : i \in 1..Len(s)}

\* list.index: the first position holding x (the caller checks x is there).
Index(s, x) == CHOOSE i \in 1..Len(s) : s[i] = x /\ \A j \in 1..(i - 1) : s[j] # x

TypeKnown(type) == \E i \in 1..Len(types) : types[i] = type

\* Mutant: the type is not looked up, the first function is taken.
WriterFnNameFirst(type) == tensorboard_writer_fns[1]

\* line 74: tensorboard_writer_fns[types.index(type)]
WriterFnName(type) == tensorboard_writer_fns[Index(types, type)]

(***************************************************************************)
(* Step resolution.  Each operator returns [steps, step, err]: the new     *)
(* tag_steps, the step to forward and "ok" or the exception raised.        *)
(***************************************************************************)
Resolved(steps, step) == [steps |-> steps, step |-> step, err |-> "ok"]
Raised(steps, e) == [steps |-> steps, step |-> None, err |-> e]

StepMismatch == "Exception: Step mismatch for the scalars!"

\* Mutant: the explicit step itself is stored as the next step.
NonGroupedExplicitSameStep(steps, tag, step) ==
    Resolved(Put(steps, tag, IntV(step)), step)

\* lines 78-80: non-grouped item with an explicit step
NonGroupedExplicit(steps, tag, step) ==
    Resolved(Put(steps, tag, IntV(step + 1)), step)

\* Mutant: the stored next step is not incremented.
NonGroupedImplicitNoIncrement(steps, tag) ==
    LET s1 == IF tag \notin DOMAIN steps THEN Put(steps, tag, IntV(0)) ELSE steps
    IN  IF s1[tag].kind = "dict"
        THEN Raised(s1, "TypeError")
        ELSE Resolved(s1, s1[tag].n)

\* lines 82-85: non-grouped item without a step
NonGroupedImplicit(steps, tag) ==
    LET s1 == IF tag \notin DOMAIN steps THEN Put(steps, tag, IntV(0)) ELSE steps
    IN  IF s1[tag].kind = "dict"
        THEN Raised(s1, "TypeError")      \* dict += 1
        ELSE Resolved(Put(s1, tag, IntV(s1[tag].n + 1)), s1[tag].n)

\* lines 87-88: a tag not seen before gets an empty dict
EnsureGroup(steps, tag) ==
    IF tag \notin DOMAIN steps THEN Put(steps, tag, DictV(EmptyMap)) ELSE steps

\* Mutant: the dict of the tag is replaced by one holding the keys of the data.
SetAllReplace(steps, tag, keys, step) ==
    Put(steps, tag, DictV([k \in keys |-> step + 1]))

\* lines 92-93 and 107-108: every key of the data gets step + 1
SetAll(steps, tag, keys, step) ==
    Put(steps, tag,
        DictV([k \in (DOMAIN steps[tag].d) \cup keys |->
                  IF k \in keys THEN step + 1 ELSE steps[tag].d[k]]))

\* lines 90-93: grouped item with an explicit step
GroupedExplicit(steps, tag, keys, step) ==
    LET s1 == EnsureGroup(steps, tag)
    IN  IF keys = {} THEN Resolved(s1, step)
        ELSE IF s1[tag].kind = "int"
        THEN Raised(s1, "AttributeError")  \* int has no update
        ELSE Resolved(SetAll(s1, tag, keys, step), step)

\* line 95: the keys of the data that tag_steps[tag] already holds
RelatedStepKeys(entry, keys) == {k \in keys : k \in DOMAIN entry.d}

\* Mutant: a partly known group continues from the largest known step.
InferStepLenient(entry, keys) ==
    LET related_step_keys == RelatedStepKeys(entry, keys)
        related_step_values == {entry.d[k] : k \in related_step_keys}
    IN  IF keys = {} THEN [err |-> "IndexError", step |-> None]
        ELSE IF related_step_keys = {} THEN [err |-> "ok", step |-> 0]
        ELSE IF Cardinality(related_step_values) = 1
        THEN [err |-> "ok", step |-> CHOOSE v \in related_step_values : TRUE]
        ELSE [err |-> StepMismatch, step |-> None]

\* Mutant: the known steps are not compared, the first one is taken.
InferStepFirstValue(entry, keys) ==
    LET related_step_keys == RelatedStepKeys(entry, keys)
        related_step_values == {entry.d[k] : k \in related_step_keys}
    IN  IF Cardinality(related_step_keys) = Cardinality(keys)
        THEN IF keys = {} THEN [err |-> "IndexError", step |-> None]
             ELSE [err |-> "ok", step |-> CHOOSE v \in related_step_values : TRUE]
        ELSE IF Cardinality(related_step_keys) = 0
        THEN [err |-> "ok", step |-> 0]
        ELSE [err |-> StepMismatch, step |-> None]

\* lines 96-105: the step of a grouped item without a step, or the error
InferStep(entry, keys) ==
    LET related_step_keys == RelatedStepKeys(entry, keys)
        related_step_values == {entry.d[k] : k \in related_step_keys}
    IN  IF Cardinality(related_step_keys) = Cardinality(keys)
        THEN IF keys = {} THEN [err |-> "IndexError", step |-> None]
             ELSE IF Cardinality(related_step_values) = 1
             THEN [err |-> "ok", step |-> CHOOSE v \in related_step_values : TRUE]
             ELSE [err |-> StepMismatch, step |-> None]
        ELSE IF Cardinality(related_step_keys) = 0
        THEN [err |-> "ok", step |-> 0]
        ELSE [err |-> StepMismatch, step |-> None]

\* Mutant: the keys of the data not yet known are entered with next step 0
\* before the step is inferred.
GroupedImplicitRegisterFirst(steps, tag, keys) ==
    LET s1 == EnsureGroup(steps, tag)
    IN  IF s1[tag].kind = "int" /\ keys # {}
        THEN Raised(s1, "TypeError")
        ELSE LET r == InferStep(s1[tag], keys)
                 s2 == Put(s1, tag,
                           DictV([k \in (DOMAIN s1[tag].d) \cup keys |->
                                     IF k \in DOMAIN s1[tag].d THEN s1[tag].d[k] ELSE 0]))
             IN  IF r.err # "ok" THEN Raised(s2, r.err)
                 ELSE IF keys = {} THEN Resolved(s1, r.step)
                 ELSE Resolved(SetAll(s1, tag, keys, r.step), r.step)

\* lines 94-108: grouped item without a step
GroupedImplicit(steps, tag, keys) ==
    LET s1 == EnsureGroup(steps, tag)
    IN  IF s1[tag].kind = "int" /\ keys # {}
        THEN Raised(s1, "TypeError")       \* scalar_tag in <int>
        ELSE LET r == InferStep(s1[tag], keys)
             IN  IF r.err # "ok" THEN Raised(s1, r.err)
                 ELSE IF keys = {} THEN Resolved(s1, r.step)
                 ELSE Resolved(SetAll(s1, tag, keys, r.step), r.step)

\* lines 77-108
ResolveStep(steps, tag, item) ==
    IF item.type # "scalars"
    THEN IF item.step # None
         THEN NonGroupedExplicit(steps, tag, item.step)
         ELSE NonGroupedImplicit(steps, tag)
    ELSE IF item.step # None
         THEN GroupedExplicit(steps, tag, item.data, item.step)
         ELSE GroupedImplicit(steps, tag, item.data)

\* line 111: add_data(tag, item_data.data, step)
Forward(snk, type, tag, data, step) ==
    Append(snk, [fn |-> WriterFnName(type), tag |-> tag, data |-> data, step |-> step])

\* Mutant: the counter is set to 1 instead of incremented.
CountTagReset(counter, tag) == Put(counter, tag, 1)

\* lines 113-114
CountTag(counter, tag) == Put(counter, tag, Get(counter, tag, 0) + 1)

\* Mutant: the sink is called before the step is resolved, with step 0 when
\* resolution fails.
RecordItemForwardFirst(st, tag, item) ==
    IF ~TypeKnown(item.type)
    THEN [st EXCEPT !.err = "ValueError"]
    ELSE LET r == ResolveStep(st.steps, tag, item)
         IN  IF r.err # "ok"
             THEN [st EXCEPT !.steps = r.steps, !.err = r.err,
                             !.sink = Forward(st.sink, item.type, tag, item.data, 0)]
             ELSE [steps |-> r.steps,
                   counter |-> CountTag(st.counter, tag),
                   sink |-> Forward(st.sink, item.type, tag, item.data, r.step),
                   err |-> "ok"]

\* Mutant: the tag is given its first step before the type is looked up.
RecordItemStepFirst(st, tag, item) ==
    IF ~TypeKnown(item.type)
    THEN [st EXCEPT !.steps = Put(st.steps, tag, IntV(0)), !.err = "ValueError"]
    ELSE LET r == ResolveStep(st.steps, tag, item)
         IN  IF r.err # "ok"
             THEN [st EXCEPT !.steps = r.steps, !.err = r.err]
             ELSE [steps |-> r.steps,
                   counter |-> CountTag(st.counter, tag),
                   sink |-> Forward(st.sink, item.type, tag, item.data, r.step),
                   err |-> "ok"]

\* lines 74-114: one iteration of the loop.  st = [steps, counter, sink, err]
RecordItem(st, tag, item) ==
    IF ~TypeKnown(item.type)
    THEN [st EXCEPT !.err = "ValueError"]          \* types.index raises
    ELSE LET r == ResolveStep(st.steps, tag, item)
         IN  IF r.err # "ok"
             THEN [st EXCEPT !.steps = r.steps, !.err = r.err]
             ELSE [steps |-> r.steps,
                   counter |-> CountTag(st.counter, tag),
                   sink |-> Forward(st.sink, item.type, tag, item.data, r.step),
                   err |-> "ok"]

Snapshot(st) == [steps |-> st.steps, counter |-> st.counter, sinkLen |-> Len(st.sink)]

\* lines 73-114: the loop over data_dict.items(), from item i on.  The result
\* adds failIdx (0: no failure) and pres, the snapshot taken before each item
\* the loop reached.
RECURSIVE RunFrom(_, _, _, _)
RunFrom(st, batch, i, pres) ==
    IF i > Len(batch)
    THEN [st |-> st, failIdx |-> 0, pres |-> pres]
    ELSE LET nxt == RecordItem(st, batch[i].tag, batch[i].item)
             seen == Append(pres, Snapshot(st))
         IN  IF nxt.err # "ok"
             THEN [st |-> nxt, failIdx |-> i, pres |-> seen]
             ELSE RunFrom(nxt, batch, i + 1, seen)

(***************************************************************************)
(* Inputs.                                                                 *)
(***************************************************************************)
Payload == {"value"}   \* the opaque data of a non-grouped item

Steps == {None, 0, MaxStep}

NonGrouped(ty, s) == [type |-> ty, data |-> Payload, step |-> s]
Grouped(keys, s) == [type |-> "scalars", data |-> keys, step |-> s]

\* "loss" is recorded with non-grouped types, "acc" with scalar and scalars
\* items alike; both are tried with a type the writer does not know.
ItemsOf(tag) ==
    {NonGrouped("scalar", s) : s \in Steps} \cup {NonGrouped("bogus", None)}
    \cup (IF tag = "loss"
          THEN {NonGrouped("histogram", None)}
          ELSE {Grouped(keys, s) : keys \in SUBSET SubTags, s \in Steps})

Entries == UNION {{[tag |-> t, item |-> it] : it \in ItemsOf(t)} : t \in Tags}

\* A dict has one item per key: the tags of a batch are distinct.
BatchTags(b) == {b[i].tag : i \in 1..Len(b)}

\* The batches of exactly n items.
RECURSIVE BatchesOfLen(_)
BatchesOfLen(n) ==
    IF n = 0 THEN {<<>>}
    ELSE UNION {{Append(b, e) : e \in {x \in Entries : x.tag \notin BatchTags(b)}} :
                   b \in BatchesOfLen(n - 1)}

Batches == UNION {BatchesOfLen(n) : n \in 0..MaxBatchLen}

Kind(e) == [tag |-> e.tag, grouped |-> e.item.type = "scalars", explicit |-> e.item.step # None]

(***************************************************************************)
(* TensorboardWriter.                                                      *)
(***************************************************************************)
NoRun == [called |-> FALSE, batch |-> <<>>, err |-> "ok", failIdx |-> 0, pres |-> <<>>]

\* __init__, lines 47-48
InitWriter ==
    /\ tag_steps = EmptyMap
    /\ tag_counter = EmptyMap
    /\ sink = <<>>
    /\ attempted = {}
    /\ lastRun = NoRun

\* record_data_from_dict(data_dict)
RecordDataFromDict(batch) ==
    LET r == RunFrom([steps |-> tag_steps, counter |-> tag_counter, sink |-> sink, err |-> "ok"],
                     batch, 1, <<>>)
    IN  /\ tag_steps' = r.st.steps
        /\ tag_counter' = r.st.counter
        /\ sink' = r.st.sink
        /\ attempted' = attempted \cup {Kind(batch[i]) : i \in 1..Len(r.pres)}
        /\ lastRun' = [called |-> TRUE, batch |-> batch, err |-> r.st.err,
                       failIdx |-> r.failIdx, pres |-> r.pres]

\* The caller calls record_data_from_dict, which returns or raises.
Record ==
    /\ ~lastRun.called
    /\ \E batch \in Batches :
          /\ Len(sink) + Len(batch) <= MaxSink
          /\ RecordDataFromDict(batch)
    /\ UNCHANGED ckVars

\* The caller goes on after the call has returned or raised.
Continue ==
    /\ lastRun.called
    /\ lastRun' = NoRun
    /\ UNCHANGED <<tag_steps, tag_counter, sink, attempted>>
    /\ UNCHANGED ckVars

(***************************************************************************)
(* File names, as sequences of characters.                                 *)
(***************************************************************************)
DigitChars == <<"0", "1", "2", "3", "4", "5", "6", "7", "8", "9">>

\* '{}'.format(n) for n >= 0
RECURSIVE Decimal(_)
Decimal(n) ==
    IF n < 10 THEN <<DigitChars[n + 1]>>
    ELSE Decimal(n \div 10) \o <<DigitChars[(n % 10) + 1]>>

\* line 103-104: 'checkpoint-{}.pth'.format(epoch)
CheckpointName(epoch) ==
    <<"c", "h", "e", "c", "k", "p", "o", "i", "n", "t", "-">> \o Decimal(epoch)
        \o <<".", "p", "t", "h">>

\* The first position of character c in s, 0 when there is none.
Find(s, c) ==
    IF \E i \in 1..Len(s) : s[i] = c
    THEN CHOOSE i \in 1..Len(s) : s[i] = c /\ \A j \in 1..(i - 1) : s[j] # c
    ELSE 0

\* s.split(c)[0]
SplitHead(s, c) == IF Find(s, c) = 0 THEN s ELSE SubSeq(s, 1, Find(s, c) - 1)

\* s.split(c)[1:] joined again: what follows the first c
SplitTail(s, c) == SubSeq(s, Find(s, c) + 1, Len(s))

IsDigit(ch) == \E d \in 1..10 : DigitChars[d] = ch

DigitValue(ch) == (CHOOSE d \in 1..10 : DigitChars[d] = ch) - 1

RECURSIVE DecimalValue(_)
DecimalValue(s) ==
    IF s = <<>> THEN 0
    ELSE 10 * DecimalValue(SubSeq(s, 1, Len(s) - 1)) + DigitValue(s[Len(s)])

\* lines 82-83: int(file_name.split(".")[0].split("-")[1]), or the exception.
\* (The names of the model hold letters, digits, '-' and '.' only.)
ParseIndex(file_name) ==
    LET stem == SplitHead(file_name, ".")
    IN  IF Find(stem, "-") = 0
        THEN [err |-> "IndexError", index |-> -1]
        ELSE LET field == SplitHead(SplitTail(stem, "-"), "-")
             IN  IF field = <<>> \/ \E i \in 1..Len(field) : ~IsDigit(field[i])
                 THEN [err |-> "ValueError", index |-> -1]
                 ELSE [err |-> "ok", index |-> DecimalValue(field)]

\* Python's a % b for b # 0: the result has the sign of b.
PyMod(a, b) == IF b > 0 THEN a % b ELSE -((-a) % (-b))

(***************************************************************************)
(* CheckpointHandler.                                                      *)
(***************************************************************************)
Epochs == {0, 9, 10}

Models == {[arch |-> "LeNet", state_dict |-> "w1"], [arch |-> "ResNet", state_dict |-> "w2"]}

OptimizerStates == {"o1", "o2"}

NoOptimizer == "None"

\* Files in the directory that the handler did not write.
ForeignNames ==
    { <<"n", "o", "t", "e", "s", ".", "t", "x", "t">>,
      <<"c", "h", "e", "c", "k", "p", "o", "i", "n", "t", "-", "b", "e", "s", "t", ".", "p", "t", "h">>,
      <<"m", "o", "d", "e", "l", "-", "1", "1", ".", "p", "t", "h">> }

ForeignContent == [kind |-> "foreign"]

\* lines 96-102: the dict handed to torch.save
CheckpointState(model, optimizer, epoch) ==
    [kind |-> "checkpoint", arch |-> model.arch, epoch |-> epoch,
     state_dict |-> model.state_dict, optimizer |-> optimizer]

\* The keys load_checkpoint reads from the loaded dict.
Fields == {"arch", "epoch", "state_dict", "optimizer"}

\* The dict rec without key f.
Without(rec, f) == [k \in (DOMAIN rec) \ {f} |-> rec[k]]

\* Files outside the checkpoint directory, written by others with torch.save:
\* one dict per key of Fields, lacking that key.
OtherPath(f) == <<"o", "l", "d", "/", f, ".", "p", "t", "h">>

Elsewhere ==
    [p \in {OtherPath(f) : f \in Fields} |->
        Without([kind |-> "checkpoint", arch |-> "LeNet", epoch |-> 9,
                 state_dict |-> "w1", optimizer |-> "o1"],
                CHOOSE f \in Fields : p = OtherPath(f))]

\* The files a path can name: the directory and the files elsewhere.
Disk(fs) == [p \in (DOMAIN fs) \cup (DOMAIN Elsewhere) |->
                IF p \in DOMAIN fs THEN fs[p] ELSE Elsewhere[p]]

NoData == [arch |-> "", model |-> "", optimizer |-> NoOptimizer, epoch |-> -1]

NoModel == [arch |-> "", state_dict |-> ""]

\* lines 62-68: load_checkpoint(model, optimizer, resume_path); optimizer is
\* NoOptimizer or the optimizer to restore into.  Returns [err, data].
LoadCheckpoint(fs, optimizer, resume_path) ==
    IF resume_path \notin DOMAIN fs
    THEN [err |-> "FileNotFoundError", data |-> NoData]
    ELSE IF fs[resume_path].kind # "checkpoint"
    THEN [err |-> "UnpicklingError", data |-> NoData]
    ELSE LET checkpoint == fs[resume_path]
         IN  IF "state_dict" \notin DOMAIN checkpoint
             THEN [err |-> "KeyError", data |-> NoData]       \* line 63
             ELSE IF optimizer # NoOptimizer /\ "optimizer" \notin DOMAIN checkpoint
             THEN [err |-> "KeyError", data |-> NoData]       \* line 66
             ELSE IF "arch" \notin DOMAIN checkpoint \/ "epoch" \notin DOMAIN checkpoint
             THEN [err |-> "KeyError", data |-> NoData]       \* line 68
             ELSE
             [err |-> "ok",
              data |-> [arch |-> checkpoint.arch,
                        model |-> checkpoint.state_dict,
                        optimizer |-> IF optimizer # NoOptimizer
                                      THEN checkpoint.optimizer ELSE NoOptimizer,
                        epoch |-> checkpoint.epoch]]

\* Mutant: reverse=True forgotten, the smallest index is taken.
Smallest(S) == CHOOSE m \in S : \A x \in S : m <= x

\* line 82-83: sorted(map(...), reverse=True)[0]
Largest(S) == CHOOSE m \in S : \A x \in S : x <= m

\* Mutant: an empty listing is tolerated and nothing is loaded.
LoadLatestOutcomesEmptyOk(fs, optimizer) ==
    LET parsed == [n \in DOMAIN fs |-> ParseIndex(n)]
        bad == {n \in DOMAIN fs : parsed[n].err # "ok"}
    IN  IF bad # {}
        THEN {[err |-> parsed[n].err, data |-> NoData] : n \in bad}
        ELSE IF DOMAIN fs = {}
        THEN {[err |-> "ok", data |-> NoData]}
        ELSE {LoadCheckpoint(fs, optimizer,
                  CheckpointName(Largest({parsed[n].index : n \in DOMAIN fs})))}

\* lines 82-84: the outcomes of load_latest_checkpoint.  A name that does not
\* parse raises; with several such names the listing order decides which.
LoadLatestOutcomes(fs, optimizer) ==
    LET parsed == [n \in DOMAIN fs |-> ParseIndex(n)]
        bad == {n \in DOMAIN fs : parsed[n].err # "ok"}
    IN  IF bad # {}
        THEN {[err |-> parsed[n].err, data |-> NoData] : n \in bad}
        ELSE IF DOMAIN fs = {}
        THEN {[err |-> "IndexError", data |-> NoData]}
        ELSE {LoadCheckpoint(fs, optimizer,
                  CheckpointName(Largest({parsed[n].index : n \in DOMAIN fs})))}

\* Mutant: the file name is not formatted with the epoch.
SaveCheckpointUnformatted(fs, model, optimizer, epoch) ==
    Put(fs, <<"c", "h", "e", "c", "k", "p", "o", "i", "n", "t", "-", "{", "}", ".", "p", "t", "h">>,
        CheckpointState(model, optimizer, epoch))

\* lines 96-105
SaveCheckpoint(fs, model, optimizer, epoch) ==
    Put(fs, CheckpointName(epoch), CheckpointState(model, optimizer, epoch))

\* Mutant: the interval is not looked at.
DueAlways(epoch, ivl) == TRUE

\* line 117: epoch % self.interval == 0
Due(epoch, ivl) == PyMod(epoch, ivl) = 0

Idle == [called |-> FALSE, op |-> "", epoch |-> -1, model |-> NoModel, optimizer |-> NoOptimizer,
         path |-> <<>>, err |-> "ok", data |-> NoData, pre |-> EmptyMap]

Called(op, epoch, model, optimizer, path, err, data) ==
    [called |-> TRUE, op |-> op, epoch |-> epoch, model |-> model, optimizer |-> optimizer,
     path |-> path, err |-> err, data |-> data, pre |-> files]

\* __init__, lines 45-47, on a directory that may hold files of others
InitHandler ==
    /\ interval \in (-MaxInterval)..MaxInterval
    /\ \E F \in SUBSET ForeignNames : files = [n \in F |-> ForeignContent]
    /\ latest = EmptyMap
    /\ lastOp = Idle

save_checkpoint(model, optimizer, epoch) ==
    /\ files' = SaveCheckpoint(files, model, optimizer, epoch)
    /\ latest' = Put(latest, epoch, CheckpointState(model, optimizer, epoch))
    /\ lastOp' = Called("save_checkpoint", epoch, model, optimizer, <<>>, "ok", NoData)
    /\ UNCHANGED interval

save_checkpoint_interval(model, optimizer, epoch) ==
    /\ IF interval = 0
       THEN /\ lastOp' = Called("save_checkpoint_interval", epoch, model, optimizer, <<>>,
                                "ZeroDivisionError", NoData)
            /\ UNCHANGED <<files, latest>>
       ELSE /\ lastOp' = Called("save_checkpoint_interval", epoch, model, optimizer, <<>>,
                                "ok", NoData)
            /\ IF Due(epoch, interval)
               THEN /\ files' = SaveCheckpoint(files, model, optimizer, epoch)
                    /\ latest' = Put(latest, epoch, CheckpointState(model, optimizer, epoch))
               ELSE UNCHANGED <<files, latest>>
    /\ UNCHANGED interval

load_checkpoint(optimizer, resume_path) ==
    LET r == LoadCheckpoint(Disk(files), optimizer, resume_path)
    IN  /\ lastOp' = Called("load_checkpoint", -1, NoModel, optimizer, resume_path, r.err, r.data)
        /\ UNCHANGED <<interval, files, latest>>

load_latest_checkpoint(optimizer) ==
    \E r \in LoadLatestOutcomes(files, optimizer) :
        /\ lastOp' = Called("load_latest_checkpoint", -1, NoModel, optimizer, <<>>, r.err, r.data)
        /\ UNCHANGED <<interval, files, latest>>

\* The caller calls a method of the handler, which returns or raises.
Save ==
    /\ ~lastOp.called
    /\ \E m \in Models, o \in OptimizerStates, e \in Epochs : save_checkpoint(m, o, e)
    /\ UNCHANGED tbVars

SaveInterval ==
    /\ ~lastOp.called
    /\ \E m \in Models, o \in OptimizerStates, e \in Epochs :
          save_checkpoint_interval(m, o, e)
    /\ UNCHANGED tbVars

Load ==
    /\ ~lastOp.called
    /\ \E o \in OptimizerStates \cup {NoOptimizer},
          path \in {CheckpointName(e) : e \in Epochs} \cup DOMAIN Elsewhere :
          load_checkpoint(o, path)
    /\ UNCHANGED tbVars

LoadLatest ==
    /\ ~lastOp.called
    /\ \E o \in OptimizerStates \cup {NoOptimizer} : load_latest_checkpoint(o)
    /\ UNCHANGED tbVars

\* The caller goes on after the call has returned or raised.
Resume ==
    /\ lastOp.called
    /\ lastOp' = Idle
    /\ UNCHANGED <<interval, files, latest>>
    /\ UNCHANGED tbVars

\* Every type of the types list on "loss" (scalars with one sub-tag, scalar
\* also with an explicit step), scalar alone on "acc".
TypedItems(tag) ==
    IF tag = "loss"
    THEN {NonGrouped(types[n], None) : n \in (1..Len(types)) \ {Index(types, "scalars")}}
         \cup {Grouped({"train"}, None), NonGrouped("scalar", MaxStep)}
    ELSE {NonGrouped("scalar", None)}

TypedEntries == UNION {{[tag |-> t, item |-> it] : it \in TypedItems(t)} : t \in Tags}

\* The batches of one or two typed items on distinct tags, in either order.
TypedBatches ==
    {<<e>> : e \in TypedEntries}
    \cup {b \in {<<e1, e2>> : e1 \in TypedEntries, e2 \in TypedEntries} : b[1].tag # b[2].tag}

\* The caller calls record_data_from_dict with items of any known type.
RecordTyped ==
    /\ ~lastRun.called
    /\ \E batch \in TypedBatches :
          /\ Len(sink) + Len(batch) <= MaxTypedCalls
          /\ RecordDataFromDict(batch)
    /\ UNCHANGED ckVars

(***************************************************************************)
(* Specifications: the writer alone, and the handler alone.                *)
(***************************************************************************)
NoHandler ==
    /\ interval = 1
    /\ files = EmptyMap
    /\ latest = EmptyMap
    /\ lastOp = Idle

Init == InitWriter /\ NoHandler

Next == Record \/ Continue

Spec == Init /\ [][Next]_vars

InitStore == InitHandler /\ InitWriter

NextStore == Save \/ SaveInterval \/ Load \/ LoadLatest \/ Resume

SpecStore == InitStore /\ [][NextStore]_vars

\* The writer alone, given every type of its table.
NextTypes == RecordTyped \/ Continue

SpecTypes == Init /\ [][NextTypes]_vars

(***************************************************************************)
(* Properties of the writer.                                               *)
(***************************************************************************)
\* The calls the sink got for tag t, in order.
CallsFor(t) == LET ForTag(c) == c.tag = t IN SelectSeq(sink, ForTag)

\* Tag t was only ever submitted with non-grouped types and without a step.
ImplicitOnly(t) == \A k \in attempted : k.tag = t => ~k.grouped /\ ~k.explicit

\* The items of the call just made that the loop reached.
Reached == 1..Len(lastRun.pres)

\* Item i of the call just made was forwarded to the sink.
Succeeded(i) == i \in Reached /\ lastRun.failIdx # i

\* The sink call made for item i of the call just made, when it succeeded.
CallOf(i) == sink[lastRun.pres[i].sinkLen + 1]

\* Item i found some, but not all, of its sub-tags in tag_steps[tag].
PartlyKnown(i) ==
    LET e == lastRun.batch[i]
        before == lastRun.pres[i].steps
    IN  /\ e.item.type = "scalars"
        /\ e.item.step = None
        /\ e.tag \in DOMAIN before
        /\ before[e.tag].kind = "dict"
        /\ e.item.data \cap DOMAIN before[e.tag].d # {}
        /\ ~(e.item.data \subseteq DOMAIN before[e.tag].d)

\* C1: a tag only ever recorded with non-grouped types and without a step has
\* had its k-th recording forwarded with step k-1, so the sink holds the steps
\* 0, 1, ..., n-1 for it in that order, whatever was recorded for other tags.
C1_ImplicitStepsCountUp ==
    \A t \in Tags :
        ImplicitOnly(t) => \A k \in 1..Len(CallsFor(t)) : CallsFor(t)[k].step = k - 1

C1_Witness ==
    /\ ImplicitOnly("loss")
    /\ Len(sink) = 3
    /\ sink[1].tag = "loss" /\ sink[2].tag = "acc" /\ sink[3].tag = "loss"
    /\ sink[3].step = 1

\* C2: a scalars item without a step, some but not all of whose sub-tags are
\* in tag_steps[tag], raises the step-mismatch exception and is not forwarded.
C2_PartlyKnownRaises ==
    lastRun.called =>
        \A i \in Reached :
            PartlyKnown(i) =>
                /\ lastRun.failIdx = i
                /\ lastRun.err = StepMismatch
                /\ Len(sink) = lastRun.pres[i].sinkLen

C2_Witness ==
    /\ lastRun.called
    /\ \E i \in Reached : PartlyKnown(i) /\ lastRun.failIdx = i /\ lastRun.err = StepMismatch

\* C3 (as claimed): a scalars item with explicit step s is forwarded with step
\* s and leaves tag_steps[tag][sub-tag] = s + 1 for every sub-tag of its data.
C3_GroupedExplicitForwards ==
    lastRun.called =>
        \A i \in Reached :
            LET e == lastRun.batch[i]
            IN  (e.item.type = "scalars" /\ e.item.step # None) =>
                    /\ Succeeded(i)
                    /\ CallOf(i).tag = e.tag
                    /\ CallOf(i).step = e.item.step
                    /\ \A k \in e.item.data :
                           /\ tag_steps[e.tag].kind = "dict"
                           /\ k \in DOMAIN tag_steps[e.tag].d
                           /\ tag_steps[e.tag].d[k] = e.item.step + 1

\* The number of calls the sink got for tag t.
Forwarded(t) == Len(CallsFor(t))

\* C4: tag_counter[tag] is the number of entries for that tag that were
\* forwarded to the sink; entries that failed count for nothing.
C4_CounterCountsForwarded ==
    /\ DOMAIN tag_counter \subseteq Tags
    /\ \A t \in Tags : Get(tag_counter, t, 0) = Forwarded(t)

C4_Witness ==
    /\ lastRun.called
    /\ lastRun.failIdx # 0
    /\ \E t \in DOMAIN tag_counter :
          /\ tag_counter[t] = 2
          /\ \E k1, k2 \in attempted : k1.tag = t /\ k2.tag = t /\ k1.explicit /\ ~k2.explicit
          /\ lastRun.batch[lastRun.failIdx].tag = t

\* C10: when a call fails at item f with the step-mismatch exception or on an
\* unknown type, the items before f were forwarded in order and keep their
\* updates (counter + 1, next step = forwarded step + 1), and neither item f
\* nor any item after it was forwarded.
C10_NoRollback ==
    (lastRun.called /\ lastRun.err \in {StepMismatch, "ValueError"}) =>
        LET f == lastRun.failIdx
            base == lastRun.pres[1].sinkLen
        IN  /\ f \in 1..Len(lastRun.batch)
            /\ Len(lastRun.pres) = f
            /\ Len(sink) = base + (f - 1)
            /\ \A i \in 1..(f - 1) :
                   LET e == lastRun.batch[i]
                       c == sink[base + i]
                   IN  /\ c.tag = e.tag /\ c.data = e.item.data
                       /\ c.fn = WriterFnName(e.item.type)
                       /\ tag_counter[e.tag] = Get(lastRun.pres[i].counter, e.tag, 0) + 1
                       /\ IF e.item.type = "scalars"
                          THEN \A k \in e.item.data :
                                   /\ tag_steps[e.tag].kind = "dict"
                                   /\ k \in DOMAIN tag_steps[e.tag].d
                                   /\ tag_steps[e.tag].d[k] = c.step + 1
                          ELSE tag_steps[e.tag] = IntV(c.step + 1)

C10_Witness ==
    /\ lastRun.called
    /\ lastRun.failIdx = 2
    /\ lastRun.err = StepMismatch
    /\ Len(sink) = lastRun.pres[1].sinkLen + 1

\* The state the writer was in after item i of the call just made.
After(i) ==
    IF i < Len(lastRun.pres)
    THEN lastRun.pres[i + 1]
    ELSE [steps |-> tag_steps, counter |-> tag_counter, sinkLen |-> Len(sink)]

\* Item i is a scalars item without a step on a tag whose entry is a dict.
GroupedImplicitOnDict(i) ==
    LET e == lastRun.batch[i]
        before == lastRun.pres[i].steps
    IN  /\ e.item.type = "scalars"
        /\ e.item.step = None
        /\ e.tag \in DOMAIN before
        /\ before[e.tag].kind = "dict"

\* Item i names at least one sub-tag and found all of them in tag_steps[tag].
AllKnown(i) ==
    /\ GroupedImplicitOnDict(i)
    /\ lastRun.batch[i].item.data # {}
    /\ lastRun.batch[i].item.data \subseteq DOMAIN lastRun.pres[i].steps[lastRun.batch[i].tag].d

\* The next steps stored for the sub-tags of item i before it was processed.
KnownSteps(i) ==
    LET entry == lastRun.pres[i].steps[lastRun.batch[i].tag]
    IN  {entry.d[k] : k \in lastRun.batch[i].item.data \cap DOMAIN entry.d}

\* C11: a scalars item without a step, all of whose sub-tags (at least one)
\* are in tag_steps[tag]: when the stored next steps are all equal the item is
\* forwarded with that value; when two of them differ the call raises the
\* step-mismatch exception and the item is not forwarded.
C11_AllKnownAgreeOrRaise ==
    lastRun.called =>
        \A i \in Reached :
            AllKnown(i) =>
                IF Cardinality(KnownSteps(i)) = 1
                THEN /\ Succeeded(i)
                     /\ After(i).sinkLen = lastRun.pres[i].sinkLen + 1
                     /\ CallOf(i).tag = lastRun.batch[i].tag
                     /\ CallOf(i).step \in KnownSteps(i)
                ELSE /\ lastRun.failIdx = i
                     /\ lastRun.err = StepMismatch
                     /\ Len(sink) = lastRun.pres[i].sinkLen

C11_Witness ==
    /\ lastRun.called
    /\ \E i \in Reached :
          /\ AllKnown(i)
          /\ KnownSteps(i) = {1, MaxStep + 1}
          /\ lastRun.failIdx = i
          /\ lastRun.err = StepMismatch

\* Item i is of a type the writer knows other than scalars.
NonGroupedItem(i) ==
    /\ TypeKnown(lastRun.batch[i].item.type)
    /\ lastRun.batch[i].item.type # "scalars"

\* The calls the sink had got for the tag of item i when item i was reached.
CallsBefore(i) ==
    LET ForTag(c) == c.tag = lastRun.batch[i].tag
    IN  SelectSeq(SubSeq(sink, 1, lastRun.pres[i].sinkLen), ForTag)

\* The last recording of the tag of item i that succeeded before item i was
\* of a non-grouped type.
FollowsNonGrouped(i) ==
    /\ CallsBefore(i) # <<>>
    /\ CallsBefore(i)[Len(CallsBefore(i))].fn # "add_scalars"

LastStepBefore(i) == CallsBefore(i)[Len(CallsBefore(i))].step

\* C12: a non-grouped item with explicit step s is forwarded with step s and
\* leaves tag_steps[tag] = s + 1 whatever was stored before; a non-grouped
\* item without a step forwards one more than the step of the recording of
\* its tag that succeeded last, so s + 1 after an explicit s.
C12_ExplicitStepSetsNext ==
    lastRun.called =>
        \A i \in Reached :
            LET e == lastRun.batch[i]
            IN  /\ (NonGroupedItem(i) /\ e.item.step # None) =>
                       /\ Succeeded(i)
                       /\ CallOf(i).tag = e.tag
                       /\ CallOf(i).step = e.item.step
                       /\ After(i).steps[e.tag] = IntV(e.item.step + 1)
                /\ (NonGroupedItem(i) /\ e.item.step = None /\ FollowsNonGrouped(i)) =>
                       /\ Succeeded(i)
                       /\ CallOf(i).tag = e.tag
                       /\ CallOf(i).step = LastStepBefore(i) + 1

\* An explicit step on a tag that held a dict, then the same tag without one.
C12_Witness ==
    /\ lastRun.called
    /\ Len(sink) = 3
    /\ sink[1].tag = "acc" /\ sink[1].fn = "add_scalars"
    /\ sink[2].tag = "acc" /\ sink[2].fn = "add_scalar" /\ sink[2].step = MaxStep
    /\ sink[3].tag = "acc" /\ sink[3].fn = "add_scalar" /\ sink[3].step = MaxStep + 1
    /\ lastRun.batch[1].item.step = None

\* C13 (as claimed): on a grouped tag the step a call records for a sub-tag
\* is never lower than the step an earlier call recorded for that sub-tag
\* (the stored next step minus one); a scalars item that would record a lower
\* step, with or without an explicit step, fails instead of being forwarded.
C13_GroupedStepsNeverGoBack ==
    lastRun.called =>
        \A i \in Reached :
            LET e == lastRun.batch[i]
                before == lastRun.pres[i].steps
            IN  (/\ e.item.type = "scalars"
                 /\ e.tag \in DOMAIN before
                 /\ before[e.tag].kind = "dict"
                 /\ Succeeded(i)) =>
                    \A k \in e.item.data \cap DOMAIN before[e.tag].d :
                        /\ CallOf(i).step >= before[e.tag].d[k] - 1
                        /\ After(i).steps[e.tag].d[k] >= before[e.tag].d[k]

\* Maps f and g agree on key k: both lack it or both hold the same value.
SameAt(f, g, k) ==
    /\ (k \in DOMAIN f) = (k \in DOMAIN g)
    /\ k \in DOMAIN f => f[k] = g[k]

\* C16: an item whose type is not in the types list raises (ValueError from
\* types.index) before the sink is called for it, and tag_steps and
\* tag_counter hold for its tag what they held before the item.
C16_UnknownTypeRaisesFirst ==
    lastRun.called =>
        \A i \in Reached :
            ~TypeKnown(lastRun.batch[i].item.type) =>
                /\ lastRun.failIdx = i
                /\ lastRun.err = "ValueError"
                /\ Len(sink) = lastRun.pres[i].sinkLen
                /\ SameAt(tag_steps, lastRun.pres[i].steps, lastRun.batch[i].tag)
                /\ SameAt(tag_counter, lastRun.pres[i].counter, lastRun.batch[i].tag)

\* An unknown type on a tag recorded before, after another item of the batch.
C16_Witness ==
    /\ lastRun.called
    /\ lastRun.failIdx = 2
    /\ ~TypeKnown(lastRun.batch[2].item.type)
    /\ lastRun.batch[2].tag \in DOMAIN tag_counter
    /\ Len(sink) = 2

\* An unknown type on a tag never recorded: the tag gets no entry.
C16_WitnessNewTag ==
    /\ lastRun.called
    /\ lastRun.failIdx = 1
    /\ ~TypeKnown(lastRun.batch[1].item.type)
    /\ lastRun.batch[1].tag \notin DOMAIN tag_steps

\* Item i is a scalars item without a step none of whose sub-tags is in
\* tag_steps[tag]: the tag is new, or its dict holds none of the keys.
NoneKnown(i) ==
    LET e == lastRun.batch[i]
        before == lastRun.pres[i].steps
    IN  /\ e.item.type = "scalars"
        /\ e.item.step = None
        /\ \/ e.tag \notin DOMAIN before
           \/ /\ before[e.tag].kind = "dict"
              /\ e.item.data \cap DOMAIN before[e.tag].d = {}

\* C17 (as claimed): a scalars item without a step, none of whose sub-tags is
\* in tag_steps[tag], is forwarded with step 0 and leaves every sub-tag of
\* its data at next step 1, for every data mapping, the empty one included.
C17_NoneKnownStartsAtZero ==
    lastRun.called =>
        \A i \in Reached :
            NoneKnown(i) =>
                /\ Succeeded(i)
                /\ CallOf(i).tag = lastRun.batch[i].tag
                /\ CallOf(i).step = 0
                /\ \A k \in lastRun.batch[i].item.data :
                       /\ k \in DOMAIN After(i).steps[lastRun.batch[i].tag].d
                       /\ After(i).steps[lastRun.batch[i].tag].d[k] = 1

\* The operation table: the SummaryWriter method of each type.
OperationOf ==
    [scalar |-> "add_scalar", scalars |-> "add_scalars", image |-> "add_image",
     figure |-> "add_figure", audio |-> "add_audio", video |-> "add_video",
     text |-> "add_text", histogram |-> "add_histogram", graph |-> "add_graph"]

\* Step n is the step item i was resolved to: the item left n + 1 as the
\* next step of its tag, or of every sub-tag of its data.
IsResolvedStep(i, n) ==
    LET e == lastRun.batch[i]
        entry == After(i).steps[e.tag]
    IN  IF e.item.type = "scalars"
        THEN \A k \in e.item.data :
                 entry.kind = "dict" /\ k \in DOMAIN entry.d /\ entry.d[k] = n + 1
        ELSE entry = IntV(n + 1)

\* C18: every item of a call that succeeded caused exactly one sink call, to
\* the method the table gives for its type, with the item's tag, its data and
\* the step it was resolved to; the calls of one batch are in the order of
\* its items, and an item that failed caused none.
C18_OneCallPerItemInOrder ==
    lastRun.called =>
        /\ \A i \in Reached :
               /\ lastRun.pres[i].sinkLen = lastRun.pres[1].sinkLen + (i - 1)
               /\ After(i).sinkLen = lastRun.pres[i].sinkLen + (IF Succeeded(i) THEN 1 ELSE 0)
               /\ Succeeded(i) =>
                      /\ CallOf(i).fn = OperationOf[lastRun.batch[i].item.type]
                      /\ CallOf(i).tag = lastRun.batch[i].tag
                      /\ CallOf(i).data = lastRun.batch[i].item.data
                      /\ IsResolvedStep(i, CallOf(i).step)
                      /\ lastRun.batch[i].item.step # None =>
                             CallOf(i).step = lastRun.batch[i].item.step
        /\ lastRun.failIdx = 0 => Len(lastRun.pres) = Len(lastRun.batch)

\* A batch of two items, a graph on "loss" after a scalar on "acc".
C18_Witness ==
    /\ lastRun.called
    /\ lastRun.failIdx = 0
    /\ Len(lastRun.batch) = 2
    /\ sink = <<[fn |-> "add_scalar", tag |-> "acc", data |-> Payload, step |-> 0],
                [fn |-> "add_graph", tag |-> "loss", data |-> Payload, step |-> 0]>>

\* C19: an item recorded under a tag, forwarded or not, leaves the tag_steps
\* and tag_counter entries of every other tag as they were, and a scalars
\* item leaves the next steps of the sub-tags of its tag that are not keys of
\* its data as they were.
C19_OtherEntriesUntouched ==
    lastRun.called =>
        \A i \in Reached :
            LET e == lastRun.batch[i]
                before == lastRun.pres[i]
            IN  /\ \A t \in Tags \ {e.tag} :
                       /\ SameAt(After(i).steps, before.steps, t)
                       /\ SameAt(After(i).counter, before.counter, t)
                /\ DOMAIN After(i).steps \subseteq Tags
                /\ (/\ e.item.type = "scalars"
                    /\ e.tag \in DOMAIN before.steps
                    /\ before.steps[e.tag].kind = "dict") =>
                       \A k \in (DOMAIN before.steps[e.tag].d) \ e.item.data :
                           /\ After(i).steps[e.tag].kind = "dict"
                           /\ SameAt(After(i).steps[e.tag].d, before.steps[e.tag].d, k)

\* A scalars item for "val" beside "train" at a higher step, after an item of
\* the same batch for another tag.
C19_Witness ==
    /\ lastRun.called
    /\ Len(lastRun.pres) = 2
    /\ lastRun.batch[2].item.type = "scalars"
    /\ lastRun.batch[2].item.data = {"val"}
    /\ lastRun.batch[2].tag \in DOMAIN lastRun.pres[2].steps
    /\ lastRun.pres[2].steps[lastRun.batch[2].tag] = DictV([k \in {"train"} |-> MaxStep + 1])
    /\ lastRun.batch[1].tag \in DOMAIN lastRun.pres[2].counter
    /\ tag_steps[lastRun.batch[2].tag] =
           DictV([k \in {"train", "val"} |-> IF k = "train" THEN MaxStep + 1 ELSE 1])

\* C20: when a scalars item raises the step-mismatch exception, tag_steps,
\* tag_counter and the sink are what they were before that item: no next step
\* is changed, no sub-tag is added and the tag is not counted, so a later
\* item resolves its step from the same entries as if the failed one had
\* never been submitted.
C20_MismatchLeavesState ==
    (lastRun.called /\ lastRun.err = StepMismatch) =>
        LET f == lastRun.failIdx
        IN  /\ f \in Reached
            /\ lastRun.batch[f].item.type = "scalars"
            /\ tag_steps = lastRun.pres[f].steps
            /\ tag_counter = lastRun.pres[f].counter
            /\ Len(sink) = lastRun.pres[f].sinkLen

\* A mismatch on a tag recorded once, for an item that names a new sub-tag.
C20_Witness ==
    /\ lastRun.called
    /\ lastRun.err = StepMismatch
    /\ lastRun.failIdx = 1
    /\ lastRun.batch[1].item.data = {"train", "val"}
    /\ tag_steps[lastRun.batch[1].tag] = DictV([k \in {"train"} |-> 1])
    /\ tag_counter[lastRun.batch[1].tag] = 1

(***************************************************************************)
(* Properties of the checkpoint handler.                                   *)
(***************************************************************************)
\* The epochs save_checkpoint has written so far.
SavedEpochs == DOMAIN latest

LargestSaved == CHOOSE m \in SavedEpochs : \A e \in SavedEpochs : e <= m

\* The directory holds nothing but what the handler wrote into it.
OnlyOwnFiles(fs) == \A n \in DOMAIN fs : \E e \in SavedEpochs : n = CheckpointName(e)

JustCalled(op) == lastOp.called /\ lastOp.op = op

\* C5 (as claimed): save_checkpoint_interval on a handler whose interval is
\* <= 0 raises an error, whatever the epoch, and writes no file.
C5_NonPositiveIntervalRejected ==
    (JustCalled("save_checkpoint_interval") /\ interval <= 0) =>
        /\ lastOp.err # "ok"
        /\ files = lastOp.pre

\* C6: with a positive interval, save_checkpoint_interval writes the file of
\* the epoch when epoch mod interval = 0 and only then; otherwise the files of
\* the directory and their contents are as before the call.
C6_SavesIffDue ==
    (JustCalled("save_checkpoint_interval") /\ interval > 0) =>
        /\ lastOp.err = "ok"
        /\ IF lastOp.epoch % interval = 0
           THEN /\ DOMAIN files = DOMAIN lastOp.pre \cup {CheckpointName(lastOp.epoch)}
                /\ files[CheckpointName(lastOp.epoch)] =
                       CheckpointState(lastOp.model, lastOp.optimizer, lastOp.epoch)
                /\ \A n \in DOMAIN lastOp.pre :
                       n # CheckpointName(lastOp.epoch) => files[n] = lastOp.pre[n]
           ELSE files = lastOp.pre

C6_Witness ==
    /\ JustCalled("save_checkpoint_interval")
    /\ interval = 2
    /\ lastOp.epoch = 9
    /\ files = lastOp.pre
    /\ CheckpointName(10) \in DOMAIN files
    /\ CheckpointName(9) \notin DOMAIN files

\* C7: on a directory holding only the handler's own files, at least one,
\* load_latest_checkpoint returns the checkpoint of the numerically largest
\* saved epoch: its epoch, architecture and model state, and its optimizer
\* state in the optimizer passed in.
C7_LatestIsLargest ==
    (JustCalled("load_latest_checkpoint") /\ SavedEpochs # {} /\ OnlyOwnFiles(files)) =>
        /\ lastOp.err = "ok"
        /\ lastOp.data.epoch = LargestSaved
        /\ lastOp.data.arch = latest[LargestSaved].arch
        /\ lastOp.data.model = latest[LargestSaved].state_dict
        /\ lastOp.optimizer # NoOptimizer =>
               lastOp.data.optimizer = latest[LargestSaved].optimizer

C7_Witness ==
    /\ JustCalled("load_latest_checkpoint")
    /\ OnlyOwnFiles(files)
    /\ SavedEpochs = {0, 9, 10}
    /\ lastOp.err = "ok"
    /\ lastOp.data.epoch = 10

\* C8 (as claimed): files of the directory that are not named
\* checkpoint-<epoch>.pth are ignored by load_latest_checkpoint: with them
\* present it raises nothing and still returns the largest saved epoch.
C8_ForeignFilesIgnored ==
    (/\ JustCalled("load_latest_checkpoint")
     /\ SavedEpochs # {}
     /\ \E n \in DOMAIN files : n \in ForeignNames) =>
        /\ lastOp.err = "ok"
        /\ lastOp.data.epoch = LargestSaved

\* The path of the load_checkpoint call just made is the file of epoch e.
LoadedEpoch(e) == JustCalled("load_checkpoint") /\ lastOp.path = CheckpointName(e)

\* What every load of a saved epoch returns: architecture, epoch, model state.
ReturnsSaved(e) ==
    /\ lastOp.err = "ok"
    /\ lastOp.data.arch = latest[e].arch
    /\ lastOp.data.epoch = e
    /\ lastOp.data.epoch = latest[e].epoch
    /\ lastOp.data.model = latest[e].state_dict

IsCheckpointName(n) ==
    ParseIndex(n).err = "ok" /\ n = CheckpointName(ParseIndex(n).index)

\* C14: load_latest_checkpoint on a directory that is empty, or that holds no
\* file named checkpoint-<epoch>.pth, raises (IndexError on an empty listing
\* or a name without '-', ValueError on a non-numeric index,
\* FileNotFoundError when the file of a parsed index is absent), returns no
\* record and leaves the directory as it was.
C14_NothingToLoadRaises ==
    (/\ JustCalled("load_latest_checkpoint")
     /\ \A n \in DOMAIN files : ~IsCheckpointName(n)) =>
        /\ lastOp.err \in {"IndexError", "ValueError", "FileNotFoundError"}
        /\ lastOp.data = NoData
        /\ files = lastOp.pre

C14_Witness ==
    /\ JustCalled("load_latest_checkpoint")
    /\ files = EmptyMap
    /\ lastOp.err = "IndexError"
    /\ lastOp.data = NoData

\* A directory holding only a file that is not a checkpoint of the handler.
C14_WitnessForeign ==
    /\ JustCalled("load_latest_checkpoint")
    /\ DOMAIN files = {<<"m", "o", "d", "e", "l", "-", "1", "1", ".", "p", "t", "h">>}
    /\ lastOp.err = "FileNotFoundError"

\* The payload of the file the load_checkpoint call just made was given lacks
\* key f of the dict save_checkpoint writes.
LoadedLacking(f) ==
    /\ JustCalled("load_checkpoint")
    /\ lastOp.path \in DOMAIN Disk(lastOp.pre)
    /\ Disk(lastOp.pre)[lastOp.path].kind = "checkpoint"
    /\ f \notin DOMAIN Disk(lastOp.pre)[lastOp.path]

\* C15 (as claimed): load_checkpoint on a payload lacking one of arch, epoch,
\* state_dict, optimizer raises and returns no record, with or without an
\* optimizer passed in.
C15_MissingFieldRaises ==
    \A f \in Fields :
        LoadedLacking(f) => lastOp.err = "KeyError" /\ lastOp.data = NoData

====
